---------------------------- MODULE Spec2Model ----------------------------
(***************************************************************************)
(* Knowledge-Graph backend: chunk -> fit -> extract -> merge -> name ->    *)
(* provision -> ingest.  Model of src/backend/ernie.py, graph.py, app.py.  *)
(*                                                                         *)
(* Strings are sequences of one-character strings, so that lower(),        *)
(* strip(), slicing, rfind() and f-string formatting are computed          *)
(* character by character.  Python's 0-based positions are kept: the       *)
(* character at Python index j of s is s[j + 1].                           *)
(***************************************************************************)
EXTENDS Integers, Sequences, FiniteSets, TLC

VARIABLES
    \* _chunk_text (generator state)
    ck_text, ck_max_len, ck_i, ck_chunks,
    \* extract_entities_chunked (locals of the merge loop)
    combined_entities, combined_relations, canonical_to_id, first_title,
    chunk_idx, local_to_combined, mg_pc, mg_ret,
    \* history of the merge: the local ids carried by the entities of the
    \* current chunk's result, the numbers of entities and relations consumed,
    \* the last relation and whether it was kept, for each global entity the
    \* identity strings of the extracted entities mapped to it, and whether
    \* every chunk so far had pairwise distinct local ids
    mg_chunk_ids, mg_nents, mg_nrels, mg_last_rel, mg_last_kept, mg_reg,
    mg_ids_unique,
    \* history: for each local id of the current chunk, the normalized key
    \* of the entity that carries it
    mg_chunk_keys,
    \* extract_entities: position, the text sent, the loop variable, the
    \* number of requests posted, the outcomes received, the seconds slept
    \* (in units of BACKOFF_FACTOR) and the value returned
    ex_pc, ex_text, attempt, ex_sent, ex_log, ex_slept, ex_ret,
    \* the Neo4j server: database name -> its Entity nodes and RELATION edges
    databases,
    \* a caller that ingests a set and then ingests it again: the set to be
    \* repeated, and after the repetition the database it went to, the
    \* node and edge counts before the repetition, and that it took place
    ing_last, ing_name, ing_before, ing_repeated,
    \* process_text_to_graph and _unique_db_name, per server process: the
    \* position, the argument, and the locals base_name, db_name, existing
    \* and idx; whether SHOW DATABASES answered; the value returned
    pg_pc, pg_result, base_name, db_name, existing, idx, pg_listed, pg_ret,
    \* history of the store: the number of process_text_to_graph calls made
    \* and, for each returned database name, the canonical values ingested
    pg_calls, ingested_log,
    \* one upload_file request after another: the position of the current
    \* run, the number of runs started, the store as the current run found it
    run_pc, run_count, run_before,
    \* _fit_text_to_token_budget applied to a chunk and then to its own
    \* results: the chunk and the results so far
    ft_text, ft_out,
    \* retrieve_graph: the database asked for, the records the query
    \* returned, in the order returned, and the value returned
    rt_title, rt_results, rt_ret

ckVars == <<ck_text, ck_max_len, ck_i, ck_chunks>>

mgVars == <<combined_entities, combined_relations, canonical_to_id, first_title,
            chunk_idx, local_to_combined, mg_pc, mg_ret,
            mg_chunk_ids, mg_nents, mg_nrels, mg_last_rel, mg_last_kept,
            mg_reg, mg_ids_unique, mg_chunk_keys>>

exVars == <<ex_pc, ex_text, attempt, ex_sent, ex_log, ex_slept, ex_ret>>

ingVars == <<ing_last, ing_name, ing_before, ing_repeated>>

dbVars == <<databases, ingVars>>

pgVars == <<pg_pc, pg_result, base_name, db_name, existing, idx, pg_listed,
            pg_ret, pg_calls, ingested_log>>

runVars == <<run_pc, run_count, run_before>>

ftVars == <<ft_text, ft_out>>

rtVars == <<rt_title, rt_results, rt_ret>>

vars == <<ckVars, mgVars, exVars, dbVars, pgVars, runVars, ftVars, rtVars>>

-----------------------------------------------------------------------------
(* Bounds of the model *)

MaxTextLen == 5
MaxChunkLen == 3
MaxChunks == 2
MaxEnts == 2
MaxRels == 1
MaxIngestEnts == 2
MaxIngestRels == 1
MaxRuns == 3
MaxUploads == 2
MaxTitleLen == 3
MaxFitSpaces == 2
MaxRemapEnts == 3
MaxAttrEnts == 2
MaxAttrRels == 2
MaxStoredRels == 3

-----------------------------------------------------------------------------
(* Python string primitives *)

Min(a, b) == IF a < b THEN a ELSE b

\* str.isspace() on one character (space and newline are the whitespace
\* characters of the modelled alphabet)
IsSpace(c) == c \in {" ", "\n"}

\* s[a:b] for 0 <= a, b (Python slice, clamped to the string)
Slice(s, a, b) == SubSeq(s, a + 1, Min(b, Len(s)))

\* s.rfind(ch, a, b): highest index j with a <= j < b and s[j] = ch, else -1
RFind(s, ch, a, b) ==
    LET hits == {j \in a..(Min(b, Len(s)) - 1) : s[j + 1] = ch}
    IN  IF hits = {} THEN -1 ELSE CHOOSE j \in hits : \A k \in hits : k <= j

RECURSIVE Concat(_)
Concat(ss) == IF ss = <<>> THEN <<>> ELSE Head(ss) \o Concat(Tail(ss))

-----------------------------------------------------------------------------
(* Chunker: _chunk_text, ernie.py 24-40 *)

ChunkChars == {"a", " ", "\n"}

Texts(n) == UNION {[1..k -> ChunkChars] : k \in 0..n}

\* the off-by-one slip: cut at the whitespace itself, whenever one was found
ChunkEnd_CutBeforeSpace(t, i, max_len) ==
    LET n   == Len(t)
        end == Min(i + max_len, n)
        ws  == RFind(t, " ", i, end)
    IN  IF end < n /\ ~IsSpace(t[end]) /\ ws # -1
        THEN ws
        ELSE end

\* lines 33-38: the end of the chunk that starts at i
ChunkEnd(t, i, max_len) ==
    LET n   == Len(t)
        end == Min(i + max_len, n)
        ws  == RFind(t, " ", i, end)
    IN  IF end < n /\ ~IsSpace(t[end]) /\ ws # -1 /\ ws > i
        THEN ws + 1
        ELSE end

\* one iteration of the while loop: yield text[i:end], i = end
ChunkStep ==
    /\ ck_i < Len(ck_text)
    /\ LET end == ChunkEnd(ck_text, ck_i, ck_max_len)
       IN  /\ ck_chunks' = Append(ck_chunks, Slice(ck_text, ck_i, end))
           /\ ck_i' = end
    /\ UNCHANGED <<ck_text, ck_max_len>>

ChunkDone == ck_i >= Len(ck_text)

ChunkIdle ==
    /\ ck_text = <<>>
    /\ ck_max_len = 1
    /\ ck_i = 0
    /\ ck_chunks = <<>>

-----------------------------------------------------------------------------
(* Token budget: _estimate_tokens and _fit_text_to_token_budget,           *)
(* ernie.py 20-21 and 69-91.  Only the length of the prompt matters, and   *)
(* len(_build_prompt(text)) is len(_build_prompt("")) + len(text).         *)

_TOKEN_LIMIT == 5120
_TOKEN_SAFETY == 400

\* len(_build_prompt("")), lines 59-67
PromptOverhead == 331

Max(a, b) == IF a >= b THEN a ELSE b

\* lines 69-71, of a string of n characters
_estimate_tokens(n) == Max(1, (n + 3) \div 4)

\* the slip of a do-while: the first cut is made before the test
Shrink_CutFirst(text) == Slice(text, 0, (Len(text) * 9) \div 10)

\* lines 89-90: the iterative shrink, int(len(text) * 0.9)
RECURSIVE Shrink(_)
Shrink(text) ==
    IF /\ _estimate_tokens(PromptOverhead + Len(text)) > _TOKEN_LIMIT - _TOKEN_SAFETY
       /\ Len(text) > 1000
    THEN Shrink(Slice(text, 0, (Len(text) * 9) \div 10))
    ELSE text

\* lines 80-83
char_budget ==
    LET overhead_tokens == _estimate_tokens(PromptOverhead)
        budget_tokens   == Max(1000, _TOKEN_LIMIT - overhead_tokens - _TOKEN_SAFETY)
    IN  Max(1000, budget_tokens * 3)

\* the slip of sending the chunk as it is
_fit_text_to_token_budget_Unfitted(text) == text

\* lines 73-91
_fit_text_to_token_budget(text) ==
    IF text = <<>> THEN text
    ELSE LET cut == RFind(text, " ", 0, char_budget)
         IN  Shrink(IF Len(text) > char_budget
                    THEN Slice(text, 0, IF cut > 0 THEN cut ELSE char_budget)
                    ELSE text)

\* one more application: to the chunk, then to the result before
FitApply ==
    /\ Len(ft_out) < 2
    /\ ft_out' = Append(ft_out, _fit_text_to_token_budget(
                     IF ft_out = <<>> THEN ft_text ELSE ft_out[Len(ft_out)]))
    /\ UNCHANGED ft_text

FitIdle ==
    /\ ft_text = <<>>
    /\ ft_out = <<>>

\* app.py 56: the chunk length upload_file asks for
UploadMaxLen == 20000

\* chunks of letters with spaces at some of the places that decide the cut:
\* the first two characters and the characters around the budget
FitLens == {0, 1, char_budget - 1, char_budget, char_budget + 1, UploadMaxLen}

FitSpacePlaces == {1, 2, char_budget - 1, char_budget, char_budget + 1}

FitTexts ==
    {[j \in 1..n |-> IF j \in spaces THEN " " ELSE "a"] :
        n \in FitLens,
        spaces \in {S \in SUBSET FitSpacePlaces : Cardinality(S) <= MaxFitSpaces}}

-----------------------------------------------------------------------------
(* Python values of the decoded JSON: a string, None (JSON null), or a     *)
(* key that is absent from its dict.                                       *)

StrV(s) == [k |-> "str", v |-> s]
NoneV == [k |-> "none", v |-> <<>>]
AbsentV == [k |-> "absent", v |-> <<>>]

\* d.get(key): None for an absent key
Get(f) == IF f.k = "absent" THEN NoneV ELSE f

\* d.get(key, default)
GetDefault(f, default) == IF f.k = "absent" THEN default ELSE f

\* truth value of a Python value: None and "" are falsy
Truthy(x) == x.k = "str" /\ x.v # <<>>

\* a or b
PyOr(a, b) == IF Truthy(a) THEN a ELSE b

\* str(x)
PyStr(x) == IF x.k = "str" THEN x.v ELSE <<"N", "o", "n", "e">>

LowerLetters ==
    <<"a", "b", "c", "d", "e", "f", "g", "h", "i", "j", "k", "l", "m",
      "n", "o", "p", "q", "r", "s", "t", "u", "v", "w", "x", "y", "z">>

UpperLetters ==
    <<"A", "B", "C", "D", "E", "F", "G", "H", "I", "J", "K", "L", "M",
      "N", "O", "P", "Q", "R", "S", "T", "U", "V", "W", "X", "Y", "Z">>

Digits == {"0", "1", "2", "3", "4", "5", "6", "7", "8", "9"}

IsUpper(c) == \E j \in 1..26 : UpperLetters[j] = c
IsLower(c) == \E j \in 1..26 : LowerLetters[j] = c

\* str.isalpha() and the class [a-zA-Z0-9] on one ASCII character
IsAlpha(c) == IsUpper(c) \/ IsLower(c)
IsAlnum(c) == IsAlpha(c) \/ c \in Digits

\* str.lower() and str.upper() on one character
LowerChar(c) ==
    IF IsUpper(c) THEN LowerLetters[CHOOSE j \in 1..26 : UpperLetters[j] = c] ELSE c
UpperChar(c) ==
    IF IsLower(c) THEN UpperLetters[CHOOSE j \in 1..26 : LowerLetters[j] = c] ELSE c

Lower(s) == [j \in 1..Len(s) |-> LowerChar(s[j])]

RECURSIVE LStrip(_)
LStrip(s) == IF s # <<>> /\ IsSpace(Head(s)) THEN LStrip(Tail(s)) ELSE s

RECURSIVE RStrip(_)
RStrip(s) ==
    IF s # <<>> /\ IsSpace(s[Len(s)]) THEN RStrip(SubSeq(s, 1, Len(s) - 1)) ELSE s

\* str.strip()
Strip(s) == RStrip(LStrip(s))

DigitChar(d) ==
    CASE d = 0 -> "0" [] d = 1 -> "1" [] d = 2 -> "2" [] d = 3 -> "3"
      [] d = 4 -> "4" [] d = 5 -> "5" [] d = 6 -> "6" [] d = 7 -> "7"
      [] d = 8 -> "8" [] d = 9 -> "9"

\* str(n) for a natural number n, as formatted by an f-string
RECURSIVE Dec(_)
Dec(n) == IF n < 10 THEN <<DigitChar(n)>> ELSE Dec(n \div 10) \o <<DigitChar(n % 10)>>

-----------------------------------------------------------------------------
(* Merge Engine: extract_entities_chunked, ernie.py 151-212 *)

\* a slip: the key is trimmed but its case is kept
_normalize_key_KeepCase(s) == Strip(PyStr(PyOr(s, StrV(<<>>))))

\* lines 42-43: (s or "").strip().lower()
_normalize_key(s) == Lower(Strip(PyStr(PyOr(s, StrV(<<>>)))))

\* line 176: e.get("canonical") or e.get("text") or e.get("id")
EntityIdentity(e) == PyOr(PyOr(Get(e.canonical), Get(e.text)), Get(e.id))

\* line 182: str(e.get("id") or f"E{len(combined_entities)+1}")
BaseLocalId(e, n) == PyStr(PyOr(Get(e.id), StrV(<<"E">> \o Dec(n + 1))))

\* line 183: f"c{chunk_idx}_{base_local_id}"
CombinedId(ci, base) == <<"c">> \o Dec(ci) \o <<"_">> \o base

\* lines 185-190: the global entity recorded on first sight
NewCombinedEntity(e, cid) ==
    [id        |-> cid,
     type      |-> GetDefault(e.type, StrV(<<>>)),
     text      |-> GetDefault(e.text, StrV(<<>>)),
     canonical |-> GetDefault(e.canonical, GetDefault(e.text, StrV(<<>>)))]

\* dict.get(key) on a dict modelled as a function: None when the key is absent
DictGet(d, key) == IF key \in DOMAIN d THEN StrV(d[key]) ELSE NoneV

\* d[key] = value
DictSet(d, key, value) == (key :> value) @@ d

EmptyDict == <<>>

\* lines 194-199: both endpoints resolve through this chunk's local map
RelationResolved(l2c, r) ==
    /\ Truthy(DictGet(l2c, PyStr(Get(r.from))))
    /\ Truthy(DictGet(l2c, PyStr(Get(r.to))))

\* the slip of resolving the destination with the source's local id
NewCombinedRelation_SourceTwice(l2c, r) ==
    [from          |-> DictGet(l2c, PyStr(Get(r.from))).v,
     to            |-> DictGet(l2c, PyStr(Get(r.from))).v,
     type          |-> GetDefault(r.type, StrV(<<"r", "e", "l", "a", "t", "e", "d">>)),
     confidence    |-> r.confidence,
     evidence_span |-> GetDefault(r.evidence_span, StrV(<<>>))]

\* lines 200-206
NewCombinedRelation(l2c, r) ==
    [from          |-> DictGet(l2c, PyStr(Get(r.from))).v,
     to            |-> DictGet(l2c, PyStr(Get(r.to))).v,
     type          |-> GetDefault(r.type, StrV(<<"r", "e", "l", "a", "t", "e", "d">>)),
     confidence    |-> r.confidence,
     evidence_span |-> GetDefault(r.evidence_span, StrV(<<>>))]

\* lines 163-173: the next chunk's result arrives (res), with title t
MergeChunkResult(t) ==
    /\ mg_pc = "next"
    /\ first_title' = IF ~Truthy(first_title) THEN Get(t) ELSE first_title
    /\ local_to_combined' = EmptyDict
    /\ mg_chunk_ids' = {}
    /\ mg_chunk_keys' = EmptyDict
    /\ mg_pc' = "entities"
    /\ UNCHANGED <<combined_entities, combined_relations, canonical_to_id,
                   chunk_idx, mg_ret, mg_nents, mg_nrels, mg_last_rel,
                   mg_last_kept, mg_reg, mg_ids_unique>>

\* lines 175-191: one iteration of `for e in entities`
MergeEntity(e) ==
    /\ mg_pc = "entities"
    /\ LET canonical_key == _normalize_key(EntityIdentity(e))
           seen          == canonical_key \in DOMAIN canonical_to_id
           combined_id   ==
               IF seen THEN canonical_to_id[canonical_key]
               ELSE CombinedId(chunk_idx, BaseLocalId(e, Len(combined_entities)))
       IN  IF canonical_key = <<>>
           THEN UNCHANGED <<combined_entities, canonical_to_id,
                            local_to_combined, mg_reg>>
           ELSE /\ canonical_to_id' =
                      IF seen THEN canonical_to_id
                      ELSE DictSet(canonical_to_id, canonical_key, combined_id)
                /\ combined_entities' =
                      IF seen THEN combined_entities
                      ELSE Append(combined_entities, NewCombinedEntity(e, combined_id))
                /\ mg_reg' =
                      IF seen
                      THEN [j \in 1..Len(mg_reg) |->
                              IF \E a \in mg_reg[j] :
                                    _normalize_key(StrV(a)) = canonical_key
                              THEN mg_reg[j] \cup {PyStr(EntityIdentity(e))}
                              ELSE mg_reg[j]]
                      ELSE Append(mg_reg, {PyStr(EntityIdentity(e))})
                /\ local_to_combined' =
                      DictSet(local_to_combined, PyStr(Get(e.id)), combined_id)
    /\ mg_chunk_ids' =
          IF Get(e.id).k = "str" THEN mg_chunk_ids \cup {e.id.v} ELSE mg_chunk_ids
    /\ mg_ids_unique' =
          (mg_ids_unique /\ ~(Get(e.id).k = "str" /\ e.id.v \in mg_chunk_ids))
    /\ mg_chunk_keys' =
          IF Get(e.id).k = "str" /\ _normalize_key(EntityIdentity(e)) # <<>>
          THEN DictSet(mg_chunk_keys, e.id.v, _normalize_key(EntityIdentity(e)))
          ELSE mg_chunk_keys
    /\ mg_nents' = mg_nents + 1
    /\ UNCHANGED <<combined_relations, first_title, chunk_idx, mg_pc, mg_ret,
                   mg_nrels, mg_last_rel, mg_last_kept>>

\* the entity loop is exhausted: on to `for r in relations`
MergeEntitiesDone ==
    /\ mg_pc = "entities"
    /\ mg_pc' = "relations"
    /\ UNCHANGED <<combined_entities, combined_relations, canonical_to_id,
                   first_title, chunk_idx, local_to_combined, mg_ret,
                   mg_chunk_ids, mg_nents, mg_nrels, mg_last_rel, mg_last_kept,
                   mg_reg, mg_ids_unique,
                   mg_chunk_keys>>

\* lines 193-206: one iteration of `for r in relations`
MergeRelation(r) ==
    /\ mg_pc = "relations"
    /\ combined_relations' =
          IF RelationResolved(local_to_combined, r)
          THEN Append(combined_relations, NewCombinedRelation(local_to_combined, r))
          ELSE combined_relations
    /\ mg_last_rel' = <<r>>
    /\ mg_last_kept' = (Len(combined_relations') > Len(combined_relations))
    /\ mg_nrels' = mg_nrels + 1
    /\ UNCHANGED <<combined_entities, canonical_to_id, first_title, chunk_idx,
                   local_to_combined, mg_pc, mg_ret, mg_chunk_ids, mg_nents,
                   mg_reg, mg_ids_unique,
                   mg_chunk_keys>>

\* the relation loop is exhausted: enumerate() moves to the next chunk
MergeChunkDone ==
    /\ mg_pc = "relations"
    /\ mg_pc' = "next"
    /\ chunk_idx' = chunk_idx + 1
    /\ mg_last_rel' = <<>>
    /\ mg_last_kept' = FALSE
    /\ UNCHANGED <<combined_entities, combined_relations, canonical_to_id,
                   first_title, local_to_combined, mg_ret, mg_chunk_ids,
                   mg_nents, mg_nrels, mg_reg, mg_ids_unique,
                   mg_chunk_keys>>

\* lines 208-212
MergeReturn ==
    /\ mg_pc = "next"
    /\ mg_pc' = "returned"
    /\ mg_ret' = <<[title     |-> PyOr(first_title, StrV(<<"g", "r", "a", "p", "h">>)),
                    entities  |-> combined_entities,
                    relations |-> combined_relations]>>
    /\ UNCHANGED <<combined_entities, combined_relations, canonical_to_id,
                   first_title, chunk_idx, local_to_combined, mg_chunk_ids,
                   mg_nents, mg_nrels, mg_last_rel, mg_last_kept, mg_reg,
                   mg_ids_unique,
                   mg_chunk_keys>>

\* lines 157-160
MergeStart ==
    /\ combined_entities = <<>>
    /\ combined_relations = <<>>
    /\ canonical_to_id = EmptyDict
    /\ first_title = NoneV
    /\ chunk_idx = 0
    /\ local_to_combined = EmptyDict
    /\ mg_pc = "next"
    /\ mg_ret = <<>>
    /\ mg_chunk_ids = {}
    /\ mg_nents = 0
    /\ mg_nrels = 0
    /\ mg_last_rel = <<>>
    /\ mg_last_kept = FALSE
    /\ mg_reg = <<>>
    /\ mg_ids_unique = TRUE
    /\ mg_chunk_keys = EmptyDict

-----------------------------------------------------------------------------
(* Inputs of the merge: what the extraction service may answer *)

Str_Ab == <<"A", "b">>
Str_ab_ == <<"a", "b", " ">>
Str_B == <<"B">>
Str_E1 == <<"E", "1">>
Str_E2 == <<"E", "2">>

CanonicalVals == {AbsentV, StrV(Str_Ab), StrV(Str_ab_)}
TextVals == {AbsentV, StrV(Str_B)}
IdVals == {AbsentV, StrV(Str_E1), StrV(Str_E2)}
TitleVals == {AbsentV, StrV(<<"T">>)}

MergeEntities ==
    [id : IdVals, type : {StrV(<<"P">>)}, text : TextVals, canonical : CanonicalVals]

\* chunk results whose entities all carry a local id, as the service is
\* asked to answer: the same two local ids in every chunk
RemapEntities ==
    [id : {StrV(Str_E1), StrV(Str_E2)}, type : {StrV(<<"P">>)},
     text : {StrV(Str_B)}, canonical : CanonicalVals]

RemapRelations ==
    [from : {StrV(Str_E1), StrV(Str_E2)}, to : {StrV(Str_E1), StrV(Str_E2)},
     type : {StrV(<<"r">>)}, confidence : {0}, evidence_span : {AbsentV}]

MergeRelations ==
    [from : IdVals, to : IdVals, type : {StrV(<<"r">>)},
     confidence : {0}, evidence_span : {AbsentV}]

-----------------------------------------------------------------------------
(* Extraction Client: extract_entities and safe_parse_json, ernie.py 48-56, *)
(* 93-148.  An outcome is what one requests.post() produces: a response     *)
(* (status, whether its text holds "MissingDateHeader", and for a 200 the   *)
(* message content) or a requests.exceptions.RequestException.              *)

MAX_RETRIES == 3

Response(status, missing_date, content) ==
    [kind |-> "response", status |-> status, missing_date |-> missing_date,
     content |-> content]

RequestException ==
    [kind |-> "exception", status |-> 0, missing_date |-> FALSE,
     content |-> "none"]

\* the message content of a 200: empty, text without a {...} span, a span
\* that json.loads rejects, or a span that decodes to a dict
Contents == {"empty", "nospan", "badjson", "json"}

Outcomes ==
    {Response(200, FALSE, c) : c \in Contents}
    \cup {Response(st, md, "none") : st \in {401, 404, 500}, md \in BOOLEAN}
    \cup {RequestException}

EmptyResult == "empty"
ParsedResult == "parsed"

\* the slip of taking every {...} span as decoded
safe_parse_json_AnySpan(raw_output) ==
    IF raw_output \in {"badjson", "json"} THEN ParsedResult ELSE EmptyResult

\* lines 48-56: the first {...} span decoded, else the empty result
safe_parse_json(raw_output) ==
    IF raw_output \in {"badjson", "json"}
    THEN IF raw_output = "json" THEN ParsedResult ELSE EmptyResult
    ELSE EmptyResult

\* the slip of retrying on every failed response
RetryableResponse_AnyError(o) == o.status # 200

\* line 129: the clock-skew / stale-header signal
RetryableResponse(o) == o.status = 404 /\ o.missing_date

\* 2 ** attempt
RECURSIVE Pow2(_)
Pow2(n) == IF n = 0 THEN 1 ELSE 2 * Pow2(n - 1)

\* the slip of comparing with MAX_RETRIES instead of MAX_RETRIES - 1
MayRetry_OffByOne(a) == a < MAX_RETRIES

\* lines 130 and 141: attempt < MAX_RETRIES - 1
MayRetry(a) == a < MAX_RETRIES - 1

\* what one iteration of the for loop does with its outcome: "return",
\* "continue" or "raise"
AttemptVerdict(a, o) ==
    IF o.kind = "response"
    THEN IF o.status = 200 THEN "return"
         ELSE IF RetryableResponse(o) /\ MayRetry(a) THEN "continue"
         ELSE "raise"
    ELSE IF MayRetry(a) THEN "continue" ELSE "raise"

\* lines 97-108: the call starts
ExtractCall(t) ==
    /\ ex_pc = "idle"
    /\ ex_pc' = "attempt"
    /\ ex_text' = t
    /\ attempt' = 0
    /\ ex_sent' = 0
    /\ ex_log' = <<>>
    /\ ex_slept' = 0
    /\ ex_ret' = <<>>

\* lines 110-148: one iteration of `for attempt in range(MAX_RETRIES)`,
\* the request answered by outcome o
ExtractAttempt(o) ==
    /\ ex_pc = "attempt"
    /\ ex_sent' = ex_sent + 1
    /\ ex_log' = Append(ex_log, o)
    /\ LET verdict == AttemptVerdict(attempt, o)
       IN  CASE verdict = "return" ->
                  /\ ex_pc' = "returned"
                  /\ ex_ret' = <<IF o.content = "empty" THEN EmptyResult
                                 ELSE safe_parse_json(o.content)>>
                  /\ UNCHANGED <<attempt, ex_slept>>
             [] verdict = "raise" ->
                  /\ ex_pc' = "raised"
                  /\ UNCHANGED <<attempt, ex_slept, ex_ret>>
             [] verdict = "continue" ->
                  /\ ex_slept' = ex_slept + Pow2(attempt)
                  /\ IF attempt + 1 < MAX_RETRIES
                     THEN /\ attempt' = attempt + 1
                          /\ ex_pc' = "attempt"
                          /\ UNCHANGED ex_ret
                     ELSE \* line 148: the loop ran out
                          /\ ex_pc' = "returned"
                          /\ ex_ret' = <<EmptyResult>>
                          /\ UNCHANGED attempt
    /\ UNCHANGED ex_text

\* the caller has taken the result or the exception
ExtractIdle ==
    /\ ex_pc = "idle"
    /\ ex_text = <<>>
    /\ attempt = 0
    /\ ex_sent = 0
    /\ ex_log = <<>>
    /\ ex_slept = 0
    /\ ex_ret = <<>>

ExtractTexts == {<<"a">>, <<"a", " ", "b">>}

-----------------------------------------------------------------------------
(* Graph store: graph.py.  A database holds Entity nodes (a sequence, so   *)
(* that a node is identified by its position) and RELATION edges between   *)
(* node positions.                                                         *)

Neo4j == <<"n", "e", "o", "4", "j">>
System == <<"s", "y", "s", "t", "e", "m">>

EmptyDatabase == [nodes |-> <<>>, edges |-> <<>>]

\* the slip of CREATE instead of MERGE: a node is added on every ingest
MergeEntityNode_AlwaysCreate(nodes, e) ==
    Append(nodes, [canonical |-> e.canonical, type |-> e.type, text |-> e.text])

\* lines 82-90: MERGE (ent:Entity {canonical}) ON CREATE SET type, text
MergeEntityNode(nodes, e) ==
    IF \E j \in 1..Len(nodes) : nodes[j].canonical = e.canonical
    THEN nodes
    ELSE Append(nodes, [canonical |-> e.canonical, type |-> e.type, text |-> e.text])

\* lines 80-90: for e in entities
RECURSIVE create_entities(_, _)
create_entities(nodes, entities) ==
    IF entities = <<>> THEN nodes
    ELSE create_entities(MergeEntityNode(nodes, Head(entities)), Tail(entities))

\* line 94: {e['id']: e['canonical'] for e in entities} (a later entity
\* with the same id replaces the earlier one)
RECURSIVE EntityMap(_, _)
EntityMap(d, entities) ==
    IF entities = <<>> THEN d
    ELSE EntityMap(DictSet(d, Head(entities).id, Head(entities).canonical),
                   Tail(entities))

\* entity_map.get(id): the canonical value, or None
EntityMapGet(d, id) == IF id \in DOMAIN d THEN d[id] ELSE NoneV

\* the slip of SET in place of ON CREATE SET: a matched edge is rewritten
MergeEdge_Overwrite(edges, a, b, r) ==
    IF \E j \in 1..Len(edges) :
          edges[j].src = a /\ edges[j].dst = b /\ edges[j].type = r.type
    THEN [j \in 1..Len(edges) |->
            IF edges[j].src = a /\ edges[j].dst = b /\ edges[j].type = r.type
            THEN [edges[j] EXCEPT !.confidence = r.confidence,
                                  !.evidence = r.evidence_span]
            ELSE edges[j]]
    ELSE Append(edges, [src |-> a, dst |-> b, type |-> r.type,
                        confidence |-> r.confidence, evidence |-> r.evidence_span])

\* lines 102-105 for one matched row (a, b):
\* MERGE (a)-[rel:RELATION {type}]->(b) ON CREATE SET confidence, evidence
MergeEdge(edges, a, b, r) ==
    IF \E j \in 1..Len(edges) :
          edges[j].src = a /\ edges[j].dst = b /\ edges[j].type = r.type
    THEN edges
    ELSE Append(edges, [src |-> a, dst |-> b, type |-> r.type,
                        confidence |-> r.confidence, evidence |-> r.evidence_span])

\* lines 100-112: the rows of MATCH (a) MATCH (b), in order k = 0, 1, ...
RECURSIVE MergeEdgeRows(_, _, _, _, _, _)
MergeEdgeRows(edges, nodes, fc, tc, r, k) ==
    LET n == Len(nodes)
        a == (k \div n) + 1
        b == (k % n) + 1
    IN  IF n = 0 \/ k >= n * n THEN edges
        ELSE MergeEdgeRows(
                 IF nodes[a].canonical = fc /\ nodes[b].canonical = tc
                 THEN MergeEdge(edges, a, b, r) ELSE edges,
                 nodes, fc, tc, r, k + 1)

\* lines 95-112: for r in relations
RECURSIVE CreateRelationsLoop(_, _, _, _)
CreateRelationsLoop(edges, nodes, relations, entity_map) ==
    IF relations = <<>> THEN edges
    ELSE LET r == Head(relations)
             from_canonical == EntityMapGet(entity_map, r.from)
             to_canonical   == EntityMapGet(entity_map, r.to)
         IN  CreateRelationsLoop(
                 IF ~Truthy(from_canonical) \/ ~Truthy(to_canonical)
                 THEN edges
                 ELSE MergeEdgeRows(edges, nodes, from_canonical, to_canonical, r, 0),
                 nodes, Tail(relations), entity_map)

\* lines 93-112
create_relations(db, relations, entities) ==
    [db EXCEPT !.edges =
        CreateRelationsLoop(db.edges, db.nodes, relations, EntityMap(EmptyDict, entities))]

\* lines 144-146: the two write transactions of one ingest
IngestInto(db, entities, relations) ==
    create_relations([db EXCEPT !.nodes = create_entities(db.nodes, entities)],
                     relations, entities)

\* the store as the server starts: the system and the default database
StoreStart ==
    databases = (Neo4j :> EmptyDatabase) @@ (System :> EmptyDatabase)

IngestIdle ==
    /\ ing_last = <<>>
    /\ ing_name = Neo4j
    /\ ing_before = <<0, 0>>
    /\ ing_repeated = FALSE

Counts(db) == <<Len(db.nodes), Len(db.edges)>>

\* an entity/relation set is ingested into database name
Ingest(name, entities, relations) ==
    /\ ing_last = <<>>
    /\ name \in DOMAIN databases
    /\ databases' = [databases EXCEPT ![name] = IngestInto(@, entities, relations)]
    /\ ing_last' = <<[entities |-> entities, relations |-> relations]>>
    /\ ing_name' = name
    /\ ing_repeated' = FALSE
    /\ UNCHANGED ing_before

\* the same set is ingested into the same database a second time
IngestAgain ==
    /\ ing_last # <<>>
    /\ databases' = [databases EXCEPT ![ing_name] =
                        IngestInto(@, ing_last[1].entities, ing_last[1].relations)]
    /\ ing_before' = Counts(databases[ing_name])
    /\ ing_repeated' = TRUE
    /\ ing_last' = <<>>
    /\ UNCHANGED ing_name

-----------------------------------------------------------------------------
(* Inputs of ingestion: merged entity/relation sets *)

Id_c0_E1 == CombinedId(0, Str_E1)
Id_c0_E2 == CombinedId(0, Str_E2)

\* entities with a canonical text under either id, and one whose canonical
\* text is empty
IngestEntityPool ==
    [id : {Id_c0_E1, Id_c0_E2}, type : {StrV(<<"P">>)},
     text : {StrV(Str_B)}, canonical : {StrV(Str_Ab), StrV(Str_B)}]
    \cup [id : {Id_c0_E2}, type : {StrV(<<"P">>)},
          text : {StrV(Str_B)}, canonical : {StrV(<<>>)}]

IngestRelationPool ==
    [from : {Id_c0_E1}, to : {Id_c0_E1, Id_c0_E2}, type : {StrV(<<"r">>)},
     confidence : {0}, evidence_span : {StrV(<<>>)}]

\* the same entity and the same relation with differing attributes
AttrEntityPool ==
    [id : {Id_c0_E1}, type : {StrV(<<"P">>), StrV(<<"Q">>)},
     text : {StrV(Str_B)}, canonical : {StrV(Str_Ab)}]

AttrRelationPool ==
    [from : {Id_c0_E1}, to : {Id_c0_E1}, type : {StrV(<<"r">>)},
     confidence : {0, 1}, evidence_span : {StrV(<<>>)}]

SeqsUpTo(S, n) == UNION {[1..k -> S] : k \in 0..n}

-----------------------------------------------------------------------------
(* Naming Service and document ingestion: _safe_db_name, _unique_db_name   *)
(* and process_text_to_graph, graph.py 27-76 and 124-156.                  *)

Procs == {1, 2}

\* the length cap of lines 49 and 73
NameCap == 60

\* the suffix search of _unique_db_name is followed up to this index
MaxIdx == MaxRuns + 3

\* the character s[i] after re.split(r'[^a-zA-Z0-9]+', title) and
\* word.capitalize(): the first character of a word in upper case, its
\* other characters in lower case
CapitalizedAt(s, i) ==
    IF i = 1 \/ ~IsAlnum(s[i - 1]) THEN UpperChar(s[i]) ELSE LowerChar(s[i])

\* "".join(word.capitalize() for word in words if word): the separators
\* fall out, the words are capitalized
JoinCapitalized(s) ==
    LET marked == [i \in 1..Len(s) |-> <<CapitalizedAt(s, i), IsAlnum(s[i])>>]
        kept   == SelectSeq(marked, LAMBDA m : m[2])
    IN  [i \in 1..Len(kept) |-> kept[i][1]]

\* the slip of leaving out the letter-led marker
_safe_db_name_NoMarker(title) ==
    Slice(JoinCapitalized(PyStr(PyOr(title, StrV(<<"g", "r", "a", "p", "h">>)))),
          0, NameCap)

\* lines 27-49
_safe_db_name(title) ==
    LET t    == PyStr(PyOr(title, StrV(<<"g", "r", "a", "p", "h">>)))
        name == JoinCapitalized(t)
        led  == IF name = <<>> \/ ~IsAlpha(name[1])
                THEN IF name # <<>> THEN <<"G">> \o name
                     ELSE <<"G", "D", "e", "f", "a", "u", "l", "t">>
                ELSE name
    IN  Slice(led, 0, NameCap)

\* lines 72-73: f"{base_name}-{idx}"[:60]
Candidate(base, k) == Slice(base \o <<"-">> \o Dec(k), 0, NameCap)

\* the slip of returning the first candidate without looking it up
CandidateFree_Unchecked(names, c) == TRUE

\* line 74: candidate not in existing
CandidateFree(names, c) == c \notin names

\* the slip of falling back to the session that ran CREATE DATABASE
SessionDatabase_System(name) == IF name.k = "str" THEN name.v ELSE System

\* the database a session opened with database=db_name talks to (None: the
\* default database)
SessionDatabase(name) == IF name.k = "str" THEN name.v ELSE Neo4j

NoResult == [title |-> NoneV, entities |-> <<>>, relations |-> <<>>]

\* lines 124-131: the call, up to base_name = _safe_db_name(title)
PG_Call(p, result) ==
    /\ pg_pc[p] = "idle"
    /\ pg_pc' = [pg_pc EXCEPT ![p] = "show_databases"]
    /\ pg_result' = [pg_result EXCEPT ![p] = result]
    /\ base_name' = [base_name EXCEPT ![p] =
          _safe_db_name(GetDefault(result.title, StrV(<<"g", "r", "a", "p", "h">>)))]
    /\ db_name' = [db_name EXCEPT ![p] = NoneV]
    /\ existing' = [existing EXCEPT ![p] = {}]
    /\ idx' = [idx EXCEPT ![p] = 0]
    /\ pg_listed' = [pg_listed EXCEPT ![p] = FALSE]
    /\ pg_ret' = [pg_ret EXCEPT ![p] = <<>>]
    /\ pg_calls' = pg_calls + 1
    /\ UNCHANGED <<databases, ingested_log>>

\* lines 56-70: SHOW DATABASES answers; base_name is returned if it is free,
\* else the suffix search starts at idx = 2
PG_ShowDatabases(p) ==
    /\ pg_pc[p] = "show_databases"
    /\ existing' = [existing EXCEPT ![p] = DOMAIN databases]
    /\ pg_listed' = [pg_listed EXCEPT ![p] = TRUE]
    /\ IF base_name[p] \notin DOMAIN databases
       THEN /\ db_name' = [db_name EXCEPT ![p] = StrV(base_name[p])]
            /\ pg_pc' = [pg_pc EXCEPT ![p] = "clear"]
            /\ UNCHANGED idx
       ELSE /\ idx' = [idx EXCEPT ![p] = 2]
            /\ pg_pc' = [pg_pc EXCEPT ![p] = "suffix"]
            /\ UNCHANGED db_name
    /\ UNCHANGED <<pg_result, base_name, pg_ret, pg_calls, databases, ingested_log>>

\* lines 62-64: SHOW DATABASES raises; base_name is returned as it is
PG_ShowDatabasesFails(p) ==
    /\ pg_pc[p] = "show_databases"
    /\ db_name' = [db_name EXCEPT ![p] = StrV(base_name[p])]
    /\ pg_pc' = [pg_pc EXCEPT ![p] = "clear"]
    /\ UNCHANGED <<pg_result, base_name, existing, idx, pg_listed, pg_ret,
                   pg_calls, databases, ingested_log>>

\* lines 71-76: one iteration of `while True`
PG_SuffixStep(p) ==
    /\ pg_pc[p] = "suffix"
    /\ LET candidate == Candidate(base_name[p], idx[p])
       IN  IF CandidateFree(existing[p], candidate)
           THEN /\ db_name' = [db_name EXCEPT ![p] = StrV(candidate)]
                /\ pg_pc' = [pg_pc EXCEPT ![p] = "clear"]
                /\ UNCHANGED idx
           ELSE /\ idx[p] < MaxIdx
                /\ idx' = [idx EXCEPT ![p] = idx[p] + 1]
                /\ UNCHANGED <<db_name, pg_pc>>
    /\ UNCHANGED <<pg_result, base_name, existing, pg_listed, pg_ret, pg_calls,
                   databases, ingested_log>>

\* lines 114-120 and 134: _clear_neo4j_database()
PG_Clear(p) ==
    /\ pg_pc[p] = "clear"
    /\ databases' = [databases EXCEPT ![Neo4j] = EmptyDatabase]
    /\ pg_pc' = [pg_pc EXCEPT ![p] = "create"]
    /\ UNCHANGED <<pg_result, base_name, db_name, existing, idx, pg_listed,
                   pg_ret, pg_calls, ingested_log>>

\* lines 136-139: CREATE DATABASE `db_name` IF NOT EXISTS
PG_CreateDatabase(p) ==
    /\ pg_pc[p] = "create"
    /\ databases' =
          IF db_name[p].v \in DOMAIN databases THEN databases
          ELSE (db_name[p].v :> EmptyDatabase) @@ databases
    /\ pg_pc' = [pg_pc EXCEPT ![p] = "ingest_entities"]
    /\ UNCHANGED <<pg_result, base_name, db_name, existing, idx, pg_listed,
                   pg_ret, pg_calls, ingested_log>>

\* lines 140-142: the creation raises; db_name = None
PG_CreateDatabaseFails(p) ==
    /\ pg_pc[p] = "create"
    /\ db_name' = [db_name EXCEPT ![p] = NoneV]
    /\ pg_pc' = [pg_pc EXCEPT ![p] = "ingest_entities"]
    /\ UNCHANGED <<pg_result, base_name, existing, idx, pg_listed, pg_ret,
                   pg_calls, databases, ingested_log>>

\* line 145: session.execute_write(create_entities, entities)
PG_IngestEntities(p) ==
    /\ pg_pc[p] = "ingest_entities"
    /\ databases' = [databases EXCEPT ![SessionDatabase(db_name[p])].nodes =
                        create_entities(@, pg_result[p].entities)]
    /\ pg_pc' = [pg_pc EXCEPT ![p] = "ingest_relations"]
    /\ UNCHANGED <<pg_result, base_name, db_name, existing, idx, pg_listed,
                   pg_ret, pg_calls, ingested_log>>

\* lines 146-156: session.execute_write(create_relations, ...), the
\* verification query, and return db_name or "neo4j"
PG_IngestRelations(p) ==
    /\ pg_pc[p] = "ingest_relations"
    /\ databases' = [databases EXCEPT ![SessionDatabase(db_name[p])] =
                        create_relations(@, pg_result[p].relations,
                                         pg_result[p].entities)]
    /\ pg_ret' = [pg_ret EXCEPT ![p] = <<PyStr(PyOr(db_name[p], StrV(Neo4j)))>>]
    /\ ingested_log' = ingested_log \cup
          {<<PyStr(PyOr(db_name[p], StrV(Neo4j))),
             pg_result[p].entities[j].canonical>> :
              j \in 1..Len(pg_result[p].entities)}
    /\ pg_pc' = [pg_pc EXCEPT ![p] = "idle"]
    \* the locals end with the call
    /\ pg_result' = [pg_result EXCEPT ![p] = NoResult]
    /\ base_name' = [base_name EXCEPT ![p] = <<>>]
    /\ db_name' = [db_name EXCEPT ![p] = NoneV]
    /\ existing' = [existing EXCEPT ![p] = {}]
    /\ idx' = [idx EXCEPT ![p] = 0]
    /\ pg_listed' = [pg_listed EXCEPT ![p] = FALSE]
    /\ UNCHANGED pg_calls

GraphIdle ==
    /\ pg_pc = [p \in Procs |-> "idle"]
    /\ pg_result = [p \in Procs |-> NoResult]
    /\ base_name = [p \in Procs |-> <<>>]
    /\ db_name = [p \in Procs |-> NoneV]
    /\ existing = [p \in Procs |-> {}]
    /\ idx = [p \in Procs |-> 0]
    /\ pg_listed = [p \in Procs |-> FALSE]
    /\ pg_ret = [p \in Procs |-> <<>>]
    /\ pg_calls = 0
    /\ ingested_log = {}

-----------------------------------------------------------------------------
(* Inputs of process_text_to_graph: merged results *)

\* a title of n letters, which _safe_db_name leaves as it is
LetterTitle(n) == [j \in 1..n |-> IF j = 1 THEN "A" ELSE "a"]

GraphTitles == {StrV(<<"T">>), StrV(LetterTitle(NameCap - 1)), StrV(LetterTitle(NameCap))}

Entity_Ab == [id |-> Id_c0_E1, type |-> StrV(<<"P">>), text |-> StrV(Str_B),
              canonical |-> StrV(Str_Ab)]
Entity_B == [id |-> Id_c0_E2, type |-> StrV(<<"P">>), text |-> StrV(Str_B),
             canonical |-> StrV(Str_B)]
Relation_Ab_B == [from |-> Id_c0_E1, to |-> Id_c0_E2, type |-> StrV(<<"r">>),
                  confidence |-> 0, evidence_span |-> StrV(<<>>)]

\* titles for _safe_db_name alone: None, every short string of letters,
\* digits, punctuation and spaces, the example of the specification, and
\* titles that reach past the length cap
TitleChars == {"a", "B", "2", "!", " "}

Title_2024Report == <<"2", "0", "2", "4", " ", "R", "e", "p", "o", "r", "t", "!">>

NameTitles ==
    {NoneV}
    \cup {StrV(t) : t \in UNION {[1..k -> TitleChars] : k \in 0..MaxTitleLen}}
    \cup {StrV(Title_2024Report), StrV(LetterTitle(NameCap + 1)),
          StrV(<<"2">> \o LetterTitle(NameCap))}

GraphResults ==
    [title : GraphTitles, entities : {<<>>}, relations : {<<>>}]
    \cup [title : GraphTitles, entities : {<<Entity_Ab, Entity_B>>},
          relations : {<<Relation_Ab_B>>}]

-----------------------------------------------------------------------------
(* Retrieval for visualization: retrieve_graph, graph.py 158-176 *)

\* lines 159-162: MATCH (a:Entity)-[r:RELATION]->(b:Entity) RETURN
\* a.canonical AS from, r.type AS type, b.canonical AS to -- one record for
\* edge k of the database
RecordOf(db, k) ==
    [from |-> db.nodes[db.edges[k].src].canonical,
     type |-> db.edges[k].type,
     to |-> db.nodes[db.edges[k].dst].canonical]

\* the slip of adding a node for every endpoint seen
RetrieveAddNode_Always(acc, n) ==
    [acc EXCEPT !.nodes = Append(@, [id |-> acc.id, label |-> n]),
                !.id = @ + 1]

\* lines 171-173: if n not in nodes: nodes[n] = {"id": id, "label": n}; id += 1
RetrieveAddNode(acc, n) ==
    IF \E j \in 1..Len(acc.nodes) : acc.nodes[j].label = n
    THEN acc
    ELSE [acc EXCEPT !.nodes = Append(@, [id |-> acc.id, label |-> n]),
                     !.id = @ + 1]

\* lines 168-175: the body of `for record in results`
RetrieveRecord(acc, record) ==
    LET withNodes == RetrieveAddNode(RetrieveAddNode(acc, record.from), record.to)
    IN  [withNodes EXCEPT !.edges =
            Append(@, [source |-> record.from, target |-> record.to,
                       label |-> record.type])]

\* lines 165-175: nodes = {}, edges = [], id = 0, and the loop
RECURSIVE RetrieveLoop(_, _)
RetrieveLoop(acc, results) ==
    IF results = <<>> THEN acc
    ELSE RetrieveLoop(RetrieveRecord(acc, Head(results)), Tail(results))

\* lines 158-176: the dict keeps its keys in insertion order, so
\* list(nodes.values()) is the nodes in the order they were added
retrieve_graph(results) ==
    LET acc == RetrieveLoop([nodes |-> <<>>, edges |-> <<>>, id |-> 0], results)
    IN  [nodes |-> acc.nodes, links |-> acc.edges]

\* GET /graph/{title}: the query has no ORDER BY, so the records come in
\* an order of the server's choosing
Retrieve(title, order) ==
    /\ title \in DOMAIN databases
    /\ order \in Permutations(1..Len(databases[title].edges))
    /\ LET results == [k \in 1..Len(databases[title].edges) |->
                          RecordOf(databases[title], order[k])]
       IN  /\ rt_results' = results
           /\ rt_ret' = <<retrieve_graph(results)>>
    /\ rt_title' = title
    /\ UNCHANGED dbVars

RetrieveIdle ==
    /\ rt_title = Neo4j
    /\ rt_results = <<>>
    /\ rt_ret = <<>>

\* lines 144-146 of process_text_to_graph, writing into the default
\* database; the value an earlier retrieval returned is gone by then
RetrieveIngest(entities, relations) ==
    /\ databases' = [databases EXCEPT ![Neo4j] = IngestInto(@, entities, relations)]
    /\ Len(databases'[Neo4j].edges) <= MaxStoredRels
    /\ rt_title' = Neo4j
    /\ rt_results' = <<>>
    /\ rt_ret' = <<>>
    /\ UNCHANGED ingVars

Entity_E2_Ab == [id |-> Id_c0_E2, type |-> StrV(<<"P">>), text |-> StrV(Str_B),
                 canonical |-> StrV(Str_Ab)]
Entity_E1_Empty == [id |-> Id_c0_E1, type |-> StrV(<<"P">>), text |-> StrV(Str_B),
                    canonical |-> StrV(<<>>)]

\* the entity lists of an ingest: two entities, in either order, two ids
\* with one canonical text, and an entity whose canonical text is empty
RetrieveEntityLists ==
    {<<Entity_Ab, Entity_B>>, <<Entity_B, Entity_Ab>>,
     <<Entity_Ab, Entity_E2_Ab>>, <<Entity_E1_Empty, Entity_B>>}

\* relations between the two ids in every direction, loops included, and
\* one of a second type
RetrieveRelationPool ==
    [from : {Id_c0_E1, Id_c0_E2}, to : {Id_c0_E1, Id_c0_E2},
     type : {StrV(<<"r">>)}, confidence : {0}, evidence_span : {StrV(<<>>)}]
    \cup {[from |-> Id_c0_E1, to |-> Id_c0_E2, type |-> StrV(<<"s">>),
           confidence |-> 0, evidence_span |-> StrV(<<>>)]}

\* the relation lists of an ingest: none, or one relation between the two
\* ids from the pool
RetrieveRelationLists ==
    {<<>>} \cup {<<r>> : r \in RetrieveRelationPool}

-----------------------------------------------------------------------------
(* A document-processing run: upload_file, app.py 31-69, which calls       *)
(* extract_entities_chunked (ernie.py 151-212) and then                    *)
(* process_text_to_graph.  No exception is caught on the way, so one that  *)
(* extract_entities raises ends the request.                               *)

\* the request arrives with its extracted text; lines 157-160 of
\* extract_entities_chunked
RunStart(text, max_len) ==
    /\ run_pc \in {"idle", "done", "failed"}
    /\ run_pc' = "chunking"
    /\ run_count' = run_count + 1
    /\ run_before' = databases
    /\ ck_text' = text
    /\ ck_max_len' = max_len
    /\ ck_i' = 0
    /\ ck_chunks' = <<>>
    /\ combined_entities' = <<>>
    /\ combined_relations' = <<>>
    /\ canonical_to_id' = EmptyDict
    /\ first_title' = NoneV
    /\ chunk_idx' = 0
    /\ local_to_combined' = EmptyDict
    /\ mg_pc' = "next"
    /\ mg_ret' = <<>>
    /\ mg_chunk_ids' = {}
    /\ mg_nents' = 0
    /\ mg_nrels' = 0
    /\ mg_last_rel' = <<>>
    /\ mg_last_kept' = FALSE
    /\ mg_reg' = <<>>
    /\ mg_ids_unique' = TRUE
    /\ mg_chunk_keys' = EmptyDict
    /\ ex_pc' = "idle"
    /\ ex_text' = <<>>
    /\ attempt' = 0
    /\ ex_sent' = 0
    /\ ex_log' = <<>>
    /\ ex_slept' = 0
    /\ ex_ret' = <<>>
    /\ UNCHANGED <<dbVars, pgVars>>

\* ernie.py 163-167: the generator yields the next chunk, it is fitted to
\* the token budget and extract_entities is called with it
RunNextChunk ==
    /\ run_pc = "chunking"
    /\ ChunkStep
    /\ LET fit == _fit_text_to_token_budget(ck_chunks'[Len(ck_chunks')])
       IN  IF fit = <<>>
           THEN /\ chunk_idx' = chunk_idx + 1
                /\ UNCHANGED <<combined_entities, combined_relations,
                               canonical_to_id, first_title, local_to_combined,
                               mg_pc, mg_ret, mg_chunk_ids, mg_nents, mg_nrels,
                               mg_last_rel, mg_last_kept, mg_reg, mg_ids_unique,
                               mg_chunk_keys>>
                /\ UNCHANGED <<exVars, run_pc>>
           ELSE /\ ExtractCall(fit)
                /\ run_pc' = "extracting"
                /\ UNCHANGED mgVars
    /\ UNCHANGED <<dbVars, pgVars, run_count, run_before>>

\* one request of extract_entities; what it raises passes through
\* extract_entities_chunked and upload_file
RunAttempt(o) ==
    /\ run_pc = "extracting"
    /\ ExtractAttempt(o)
    /\ run_pc' = IF ex_pc' = "raised" THEN "failed" ELSE "extracting"
    /\ UNCHANGED <<ckVars, mgVars, dbVars, pgVars, run_count, run_before>>

\* ernie.py 167-173: extract_entities has returned res; an empty result
\* has no title
RunTakeResult(t) ==
    /\ run_pc = "extracting"
    /\ ex_pc = "returned"
    /\ ex_ret = <<EmptyResult>> => t = AbsentV
    /\ MergeChunkResult(t)
    /\ ex_pc' = "idle"
    /\ run_pc' = "merging"
    /\ UNCHANGED <<ex_text, attempt, ex_sent, ex_log, ex_slept, ex_ret>>
    /\ UNCHANGED <<ckVars, dbVars, pgVars, run_count, run_before>>

\* the loops over the entities and relations of a decoded result
RunMergeEntity(e) ==
    /\ run_pc = "merging"
    /\ ex_ret = <<ParsedResult>>
    /\ MergeEntity(e)
    /\ UNCHANGED <<ckVars, exVars, dbVars, pgVars, runVars>>

RunMergeEntitiesDone ==
    /\ run_pc = "merging"
    /\ MergeEntitiesDone
    /\ UNCHANGED <<ckVars, exVars, dbVars, pgVars, runVars>>

RunMergeRelation(r) ==
    /\ run_pc = "merging"
    /\ ex_ret = <<ParsedResult>>
    /\ MergeRelation(r)
    /\ UNCHANGED <<ckVars, exVars, dbVars, pgVars, runVars>>

RunMergeChunkDone ==
    /\ run_pc = "merging"
    /\ MergeChunkDone
    /\ run_pc' = "chunking"
    /\ UNCHANGED <<ckVars, exVars, dbVars, pgVars, run_count, run_before>>

\* ernie.py 208-212: the generator is exhausted
RunMergeReturn ==
    /\ run_pc = "chunking"
    /\ ChunkDone
    /\ MergeReturn
    /\ run_pc' = "merged"
    /\ UNCHANGED <<ckVars, exVars, dbVars, pgVars, run_count, run_before>>

\* app.py 60: process_text_to_graph(result)
RunProcess ==
    /\ run_pc = "merged"
    /\ PG_Call(1, mg_ret[1])
    /\ run_pc' = "graph"
    /\ UNCHANGED <<ckVars, mgVars, exVars, ingVars, run_count, run_before>>

\* a step of process_text_to_graph within the run; app.py 63-68 once it
\* has returned
RunGraph(step) ==
    /\ run_pc = "graph"
    /\ step
    /\ run_pc' = IF pg_pc'[1] = "idle" THEN "done" ELSE "graph"
    /\ UNCHANGED <<ckVars, mgVars, exVars, ingVars, run_count, run_before>>

RunIdle ==
    /\ run_pc = "idle"
    /\ run_count = 0
    /\ run_before = <<>>

(* Inputs of a run *)

RunTexts == {<<"a", "a">>}

RunOutcomes ==
    {Response(200, FALSE, "json"), Response(200, FALSE, "empty"),
     Response(404, TRUE, "none"), Response(500, FALSE, "none"),
     RequestException}

\* every content of a 200, and an error that fails the run
DecodeOutcomes ==
    {Response(200, FALSE, c) : c \in Contents} \cup {Response(500, FALSE, "none")}

RunEntities ==
    {[id |-> StrV(Str_E1), type |-> StrV(<<"P">>), text |-> StrV(Str_B),
      canonical |-> StrV(Str_Ab)]}

RunRelations ==
    {[from |-> StrV(Str_E1), to |-> StrV(Str_E1), type |-> StrV(<<"r">>),
      confidence |-> 0, evidence_span |-> AbsentV]}

-----------------------------------------------------------------------------
(* Specifications *)

InitChunk ==
    /\ ck_text \in Texts(MaxTextLen)
    /\ ck_max_len \in 1..MaxChunkLen
    /\ ck_i = 0
    /\ ck_chunks = <<>>
    /\ MergeStart
    /\ ExtractIdle
    /\ StoreStart
    /\ IngestIdle
    /\ GraphIdle
    /\ RunIdle
    /\ FitIdle
    /\ RetrieveIdle

NextChunk == ChunkStep /\ UNCHANGED <<mgVars, exVars, dbVars, pgVars, runVars, ftVars, rtVars>>

SpecChunk == InitChunk /\ [][NextChunk]_vars

InitMerge == ChunkIdle /\ MergeStart /\ ExtractIdle /\ StoreStart /\ IngestIdle /\ GraphIdle /\ RunIdle /\ FitIdle /\ RetrieveIdle

NextMerge ==
    \/ \E t \in TitleVals : chunk_idx < MaxChunks /\ MergeChunkResult(t) /\ UNCHANGED <<ckVars, exVars, dbVars, pgVars, runVars, ftVars, rtVars>>
    \/ \E e \in MergeEntities :
          mg_nents < MaxEnts /\ MergeEntity(e) /\ UNCHANGED <<ckVars, exVars, dbVars, pgVars, runVars, ftVars, rtVars>>
    \/ MergeEntitiesDone /\ UNCHANGED <<ckVars, exVars, dbVars, pgVars, runVars, ftVars, rtVars>>
    \/ \E r \in MergeRelations : mg_nrels < MaxRels /\ MergeRelation(r) /\ UNCHANGED <<ckVars, exVars, dbVars, pgVars, runVars, ftVars, rtVars>>
    \/ MergeChunkDone /\ UNCHANGED <<ckVars, exVars, dbVars, pgVars, runVars, ftVars, rtVars>>
    \/ MergeReturn /\ UNCHANGED <<ckVars, exVars, dbVars, pgVars, runVars, ftVars, rtVars>>

SpecMerge == InitMerge /\ [][NextMerge]_vars

InitExtract == ChunkIdle /\ MergeStart /\ ExtractIdle /\ StoreStart /\ IngestIdle /\ GraphIdle /\ RunIdle /\ FitIdle /\ RetrieveIdle

NextExtract ==
    \/ \E t \in ExtractTexts : ExtractCall(t) /\ UNCHANGED <<ckVars, mgVars, dbVars, pgVars, runVars, ftVars, rtVars>>
    \/ \E o \in Outcomes : ExtractAttempt(o) /\ UNCHANGED <<ckVars, mgVars, dbVars, pgVars, runVars, ftVars, rtVars>>

SpecExtract == InitExtract /\ [][NextExtract]_vars

InitIngest == ChunkIdle /\ MergeStart /\ ExtractIdle /\ StoreStart /\ IngestIdle /\ GraphIdle /\ RunIdle /\ FitIdle /\ RetrieveIdle

NextIngest ==
    \/ \E entities \in SeqsUpTo(IngestEntityPool, MaxIngestEnts),
          relations \in SeqsUpTo(IngestRelationPool, MaxIngestRels) :
           Ingest(Neo4j, entities, relations) /\ UNCHANGED <<ckVars, mgVars, exVars, pgVars, runVars, ftVars, rtVars>>
    \/ IngestAgain /\ UNCHANGED <<ckVars, mgVars, exVars, pgVars, runVars, ftVars, rtVars>>

SpecIngest == InitIngest /\ [][NextIngest]_vars

InitGraph == ChunkIdle /\ MergeStart /\ ExtractIdle /\ StoreStart /\ IngestIdle /\ GraphIdle /\ RunIdle /\ FitIdle /\ RetrieveIdle

\* process_text_to_graph called again and again by one server process
NextGraph ==
    \/ \E result \in GraphResults :
          pg_calls < MaxRuns /\ PG_Call(1, result) /\ UNCHANGED <<ckVars, mgVars, exVars, ingVars, runVars, ftVars, rtVars>>
    \/ PG_ShowDatabases(1) /\ UNCHANGED <<ckVars, mgVars, exVars, ingVars, runVars, ftVars, rtVars>>
    \/ PG_ShowDatabasesFails(1) /\ UNCHANGED <<ckVars, mgVars, exVars, ingVars, runVars, ftVars, rtVars>>
    \/ PG_SuffixStep(1) /\ UNCHANGED <<ckVars, mgVars, exVars, ingVars, runVars, ftVars, rtVars>>
    \/ PG_Clear(1) /\ UNCHANGED <<ckVars, mgVars, exVars, ingVars, runVars, ftVars, rtVars>>
    \/ PG_CreateDatabase(1) /\ UNCHANGED <<ckVars, mgVars, exVars, ingVars, runVars, ftVars, rtVars>>
    \/ PG_CreateDatabaseFails(1) /\ UNCHANGED <<ckVars, mgVars, exVars, ingVars, runVars, ftVars, rtVars>>
    \/ PG_IngestEntities(1) /\ UNCHANGED <<ckVars, mgVars, exVars, ingVars, runVars, ftVars, rtVars>>
    \/ PG_IngestRelations(1) /\ UNCHANGED <<ckVars, mgVars, exVars, ingVars, runVars, ftVars, rtVars>>

SpecGraph == InitGraph /\ [][NextGraph]_vars

InitRemap ==
    /\ ChunkIdle /\ MergeStart /\ ExtractIdle /\ StoreStart /\ IngestIdle
    /\ GraphIdle /\ RunIdle /\ FitIdle /\ RetrieveIdle

\* the merge fed with chunk results that reuse the local ids E1 and E2
NextRemap ==
    \/ chunk_idx < MaxChunks /\ MergeChunkResult(AbsentV) /\ UNCHANGED <<ckVars, exVars, dbVars, pgVars, runVars, ftVars, rtVars>>
    \/ \E e \in RemapEntities :
          mg_nents < MaxRemapEnts /\ MergeEntity(e) /\ UNCHANGED <<ckVars, exVars, dbVars, pgVars, runVars, ftVars, rtVars>>
    \/ MergeEntitiesDone /\ UNCHANGED <<ckVars, exVars, dbVars, pgVars, runVars, ftVars, rtVars>>
    \/ \E r \in RemapRelations : mg_nrels < MaxRels /\ MergeRelation(r) /\ UNCHANGED <<ckVars, exVars, dbVars, pgVars, runVars, ftVars, rtVars>>
    \/ MergeChunkDone /\ UNCHANGED <<ckVars, exVars, dbVars, pgVars, runVars, ftVars, rtVars>>
    \/ MergeReturn /\ UNCHANGED <<ckVars, exVars, dbVars, pgVars, runVars, ftVars, rtVars>>

SpecRemap == InitRemap /\ [][NextRemap]_vars

InitMergeIngest ==
    /\ ChunkIdle /\ MergeStart /\ ExtractIdle /\ StoreStart /\ IngestIdle
    /\ GraphIdle /\ RunIdle /\ FitIdle /\ RetrieveIdle

\* the merge, and then its result ingested into the empty default database
NextMergeIngest ==
    \/ NextMerge
    \/ /\ mg_pc = "returned"
       /\ Ingest(Neo4j, mg_ret[1].entities, mg_ret[1].relations)
       /\ UNCHANGED <<ckVars, mgVars, exVars, pgVars, runVars, ftVars, rtVars>>

SpecMergeIngest == InitMergeIngest /\ [][NextMergeIngest]_vars

InitAttrs ==
    /\ ChunkIdle /\ MergeStart /\ ExtractIdle /\ StoreStart /\ IngestIdle
    /\ GraphIdle /\ RunIdle /\ FitIdle /\ RetrieveIdle

\* ingest after ingest into the default database, the attributes varying
NextAttrs ==
    \/ \E entities \in SeqsUpTo(AttrEntityPool, MaxAttrEnts),
          relations \in SeqsUpTo(AttrRelationPool, MaxAttrRels) :
           Ingest(Neo4j, entities, relations) /\ UNCHANGED <<ckVars, mgVars, exVars, pgVars, runVars, ftVars, rtVars>>
    \/ IngestAgain /\ UNCHANGED <<ckVars, mgVars, exVars, pgVars, runVars, ftVars, rtVars>>

SpecAttrs == InitAttrs /\ [][NextAttrs]_vars

InitDecode ==
    /\ ChunkIdle /\ MergeStart /\ ExtractIdle /\ StoreStart /\ IngestIdle
    /\ GraphIdle /\ RunIdle /\ FitIdle /\ RetrieveIdle

\* upload_file up to the return of extract_entities_chunked, the service
\* answering with every kind of content
NextDecode ==
    \/ \E text \in RunTexts, max_len \in 1..MaxChunkLen :
          run_count < MaxUploads /\ RunStart(text, max_len) /\ UNCHANGED <<ftVars, rtVars>>
    \/ RunNextChunk /\ UNCHANGED <<ftVars, rtVars>>
    \/ \E o \in DecodeOutcomes : RunAttempt(o) /\ UNCHANGED <<ftVars, rtVars>>
    \/ \E t \in TitleVals : RunTakeResult(t) /\ UNCHANGED <<ftVars, rtVars>>
    \/ \E e \in RunEntities : mg_nents < MaxEnts /\ RunMergeEntity(e) /\ UNCHANGED <<ftVars, rtVars>>
    \/ RunMergeEntitiesDone /\ UNCHANGED <<ftVars, rtVars>>
    \/ \E r \in RunRelations : mg_nrels < MaxRels /\ RunMergeRelation(r) /\ UNCHANGED <<ftVars, rtVars>>
    \/ RunMergeChunkDone /\ UNCHANGED <<ftVars, rtVars>>
    \/ RunMergeReturn /\ UNCHANGED <<ftVars, rtVars>>

SpecDecode == InitDecode /\ [][NextDecode]_vars

InitFit ==
    /\ ChunkIdle /\ MergeStart /\ ExtractIdle /\ StoreStart /\ IngestIdle
    /\ GraphIdle /\ RunIdle /\ RetrieveIdle
    /\ ft_text \in FitTexts
    /\ ft_out = <<>>

NextFit == FitApply /\ UNCHANGED <<ckVars, mgVars, exVars, dbVars, pgVars, runVars, rtVars>>

SpecFit == InitFit /\ [][NextFit]_vars

InitName == ChunkIdle /\ MergeStart /\ ExtractIdle /\ StoreStart /\ IngestIdle /\ GraphIdle /\ RunIdle /\ FitIdle /\ RetrieveIdle

\* process_text_to_graph up to base_name = _safe_db_name(title)
NextName ==
    \E title \in NameTitles :
        /\ PG_Call(1, [title |-> title, entities |-> <<>>, relations |-> <<>>])
        /\ UNCHANGED <<ckVars, mgVars, exVars, ingVars, runVars, ftVars, rtVars>>

SpecName == InitName /\ [][NextName]_vars

InitConcurrent == ChunkIdle /\ MergeStart /\ ExtractIdle /\ StoreStart /\ IngestIdle /\ GraphIdle /\ RunIdle /\ FitIdle /\ RetrieveIdle

\* process_text_to_graph called by two server processes whose steps interleave
NextConcurrent ==
    \/ \E p \in Procs, result \in GraphResults :
          pg_calls < MaxRuns /\ PG_Call(p, result) /\ UNCHANGED <<ckVars, mgVars, exVars, ingVars, runVars, ftVars, rtVars>>
    \/ \E p \in Procs : PG_ShowDatabases(p) /\ UNCHANGED <<ckVars, mgVars, exVars, ingVars, runVars, ftVars, rtVars>>
    \/ \E p \in Procs : PG_ShowDatabasesFails(p) /\ UNCHANGED <<ckVars, mgVars, exVars, ingVars, runVars, ftVars, rtVars>>
    \/ \E p \in Procs : PG_SuffixStep(p) /\ UNCHANGED <<ckVars, mgVars, exVars, ingVars, runVars, ftVars, rtVars>>
    \/ \E p \in Procs : PG_Clear(p) /\ UNCHANGED <<ckVars, mgVars, exVars, ingVars, runVars, ftVars, rtVars>>
    \/ \E p \in Procs : PG_CreateDatabase(p) /\ UNCHANGED <<ckVars, mgVars, exVars, ingVars, runVars, ftVars, rtVars>>
    \/ \E p \in Procs : PG_CreateDatabaseFails(p) /\ UNCHANGED <<ckVars, mgVars, exVars, ingVars, runVars, ftVars, rtVars>>
    \/ \E p \in Procs : PG_IngestEntities(p) /\ UNCHANGED <<ckVars, mgVars, exVars, ingVars, runVars, ftVars, rtVars>>
    \/ \E p \in Procs : PG_IngestRelations(p) /\ UNCHANGED <<ckVars, mgVars, exVars, ingVars, runVars, ftVars, rtVars>>

SpecConcurrent == InitConcurrent /\ [][NextConcurrent]_vars

InitRun == ChunkIdle /\ MergeStart /\ ExtractIdle /\ StoreStart /\ IngestIdle /\ GraphIdle /\ RunIdle /\ FitIdle /\ RetrieveIdle

\* upload_file requests served one after another
NextRun ==
    \/ \E text \in RunTexts, max_len \in 1..MaxChunkLen :
          run_count < MaxUploads /\ RunStart(text, max_len) /\ UNCHANGED <<ftVars, rtVars>>
    \/ RunNextChunk /\ UNCHANGED <<ftVars, rtVars>>
    \/ \E o \in RunOutcomes : RunAttempt(o) /\ UNCHANGED <<ftVars, rtVars>>
    \/ \E t \in TitleVals : RunTakeResult(t) /\ UNCHANGED <<ftVars, rtVars>>
    \/ \E e \in RunEntities : mg_nents < MaxEnts /\ RunMergeEntity(e) /\ UNCHANGED <<ftVars, rtVars>>
    \/ RunMergeEntitiesDone /\ UNCHANGED <<ftVars, rtVars>>
    \/ \E r \in RunRelations : mg_nrels < MaxRels /\ RunMergeRelation(r) /\ UNCHANGED <<ftVars, rtVars>>
    \/ RunMergeChunkDone /\ UNCHANGED <<ftVars, rtVars>>
    \/ RunMergeReturn /\ UNCHANGED <<ftVars, rtVars>>
    \/ RunProcess /\ UNCHANGED <<ftVars, rtVars>>
    \/ RunGraph(PG_ShowDatabases(1)) /\ UNCHANGED <<ftVars, rtVars>>
    \/ RunGraph(PG_ShowDatabasesFails(1)) /\ UNCHANGED <<ftVars, rtVars>>
    \/ RunGraph(PG_SuffixStep(1)) /\ UNCHANGED <<ftVars, rtVars>>
    \/ RunGraph(PG_Clear(1)) /\ UNCHANGED <<ftVars, rtVars>>
    \/ RunGraph(PG_CreateDatabase(1)) /\ UNCHANGED <<ftVars, rtVars>>
    \/ RunGraph(PG_CreateDatabaseFails(1)) /\ UNCHANGED <<ftVars, rtVars>>
    \/ RunGraph(PG_IngestEntities(1)) /\ UNCHANGED <<ftVars, rtVars>>
    \/ RunGraph(PG_IngestRelations(1)) /\ UNCHANGED <<ftVars, rtVars>>

SpecRun == InitRun /\ [][NextRun]_vars

InitRetrieve == ChunkIdle /\ MergeStart /\ ExtractIdle /\ StoreStart /\ IngestIdle /\ GraphIdle /\ RunIdle /\ FitIdle /\ RetrieveIdle

\* ingests into the default database, and retrievals of what is stored
NextRetrieve ==
    \/ \E entities \in RetrieveEntityLists, relations \in RetrieveRelationLists :
           RetrieveIngest(entities, relations) /\ UNCHANGED <<ckVars, mgVars, exVars, pgVars, runVars, ftVars>>
    \/ \E title \in DOMAIN databases :
          \E order \in Permutations(1..Len(databases[title].edges)) :
             Retrieve(title, order) /\ UNCHANGED <<ckVars, mgVars, exVars, pgVars, runVars, ftVars>>

SpecRetrieve == InitRetrieve /\ [][NextRetrieve]_vars

-----------------------------------------------------------------------------
(* C4: for every text T and every maxLen L > 0 the chunks yielded so far   *)
(* concatenate to the consumed prefix of T (to T itself once the generator *)
(* is exhausted), every chunk has length at most L, and no chunk is empty; *)
(* the empty text yields no chunk.                                         *)
C4_ChunksPartitionText ==
    /\ Concat(ck_chunks) = Slice(ck_text, 0, ck_i)
    /\ \A k \in 1..Len(ck_chunks) :
          Len(ck_chunks[k]) >= 1 /\ Len(ck_chunks[k]) <= ck_max_len
    /\ ChunkDone => Concat(ck_chunks) = ck_text
    /\ ck_text = <<>> => ck_chunks = <<>>

\* exhausted generator, several chunks, one of them cut short at a space
C4_Witness ==
    /\ ChunkDone
    /\ Len(ck_chunks) >= 2
    /\ Len(ck_chunks[1]) < ck_max_len
    /\ Concat(ck_chunks) = ck_text

-----------------------------------------------------------------------------
(* C1: at every point of the merge, two different global entities never    *)
(* stand for the same normalized key: the identity strings (canonical,     *)
(* else text, else local id) of the extracted entities mapped to one       *)
(* global entity and those mapped to another never agree after trimming    *)
(* and lower-casing, and there is exactly one global entity per key.       *)
C1_OneEntityPerKey ==
    /\ Len(mg_reg) = Len(combined_entities)
    /\ Cardinality(DOMAIN canonical_to_id) = Len(combined_entities)
    /\ \A i, j \in 1..Len(mg_reg) :
          i # j => \A a \in mg_reg[i], b \in mg_reg[j] :
                      Lower(Strip(a)) # Lower(Strip(b))

\* canonical 'Ab' in chunk 0 and 'ab ' in chunk 1 ended up as one entity
C1_Witness ==
    /\ chunk_idx = 1
    /\ Len(combined_entities) = 1
    /\ mg_reg[1] = {Str_Ab, Str_ab_}
    /\ combined_entities[1].canonical = StrV(Str_Ab)

(* C2 as claimed: a relation of a chunk whose from, or whose to, is not    *)
(* the local id carried by any entity of the same chunk's result (a        *)
(* missing from/to equals no local id) contributes no global relation.     *)
C2_UnresolvedRelationDropped ==
    mg_last_rel # <<>> =>
        LET r == mg_last_rel[1]
            carried(f) == Get(f).k = "str" /\ f.v \in mg_chunk_ids
        IN  (~carried(r.from) \/ ~carried(r.to)) => ~mg_last_kept

(* C3 as claimed: when the local ids present in each chunk are pairwise    *)
(* distinct within that chunk, the global ids are pairwise distinct.       *)
C3_GlobalIdsDistinct ==
    mg_ids_unique =>
        \A i, j \in 1..Len(combined_entities) :
            i # j => combined_entities[i].id # combined_entities[j].id

-----------------------------------------------------------------------------
(* C8: in one extract call at most 3 requests are sent; every outcome but  *)
(* the last was retryable (the 404 MissingDateHeader signal or a request   *)
(* exception), so a further request follows only a retryable outcome; a    *)
(* non-retryable HTTP error ends the call raised at once; and a call whose *)
(* last outcome was retryable is raised only after the 3rd request.        *)
C8_IsRetryableOutcome(o) ==
    \/ o.kind = "exception"
    \/ o.kind = "response" /\ o.status = 404 /\ o.missing_date

C8_RetryPolicy ==
    /\ ex_sent <= 3
    /\ ex_sent = Len(ex_log)
    /\ \A k \in 1..(Len(ex_log) - 1) : C8_IsRetryableOutcome(ex_log[k])
    /\ \A k \in 1..Len(ex_log) :
          (ex_log[k].kind = "response" /\ ex_log[k].status # 200
             /\ ~C8_IsRetryableOutcome(ex_log[k]))
          => (k = Len(ex_log) /\ ex_pc = "raised")
    /\ ex_pc = "raised" =>
          /\ ex_log # <<>>
          /\ ex_ret = <<>>
          /\ C8_IsRetryableOutcome(ex_log[Len(ex_log)]) => ex_sent = 3

\* a call that failed after three retryable outcomes of both kinds
C8_Witness ==
    /\ ex_pc = "raised"
    /\ ex_sent = 3
    /\ ex_log[1].kind = "exception"
    /\ ex_log[2].kind = "response"
    /\ C8_IsRetryableOutcome(ex_log[3])

-----------------------------------------------------------------------------
(* C5: when an ingest repeats the ingest before it (same database, same    *)
(* entities, same relations), the numbers of stored Entity nodes and of    *)
(* stored RELATION edges are what they were before the repetition.         *)
C5_IngestIdempotent ==
    ing_repeated => Counts(databases[ing_name]) = ing_before

\* a set was ingested twice into a database that holds three entities and
\* edges between different entities and from an entity to itself
C5_Witness ==
    /\ ing_repeated
    /\ Len(databases[ing_name].nodes) = 3
    /\ \E j, k \in 1..Len(databases[ing_name].edges) :
          /\ databases[ing_name].edges[j].src # databases[ing_name].edges[j].dst
          /\ databases[ing_name].edges[k].src = databases[ing_name].edges[k].dst

-----------------------------------------------------------------------------
(* C6: starting from a store that already contains base name B, every name *)
(* that uniquify(B) returns is absent from the store at the time it is     *)
(* returned, so it differs from B and from every name created before.      *)
(* This is the statement without a condition on the namespace listing.     *)
C6_ReturnedNameAbsent ==
    (pg_pc[1] = "clear" /\ base_name[1] \in DOMAIN databases)
        => db_name[1].v \notin DOMAIN databases

(* C6, with the condition that the namespace listing answered: then every  *)
(* name uniquify(B) returns for a B in the store is absent from the store  *)
(* when it is returned, and so differs from B.                             *)
C6_ReturnedNameAbsentWhenListed ==
    (pg_pc[1] = "clear" /\ pg_listed[1] /\ base_name[1] \in DOMAIN databases)
        => /\ db_name[1].v \notin DOMAIN databases
           /\ db_name[1].v # base_name[1]

\* the third call for T, with T and T-2 created by the calls before
C6_Witness ==
    /\ pg_pc[1] = "clear"
    /\ pg_listed[1]
    /\ base_name[1] = <<"T">>
    /\ {<<"T">>, <<"T", "-", "2">>} \subseteq DOMAIN databases
    /\ db_name[1].v = <<"T", "-", "3">>

(* C7: for every base name of at most 60 characters and every set of       *)
(* existing names uniquify terminates (while the suffix search runs, some  *)
(* index from the current one on gives a candidate that is not in the      *)
(* existing set) and the name it returns has at most 60 characters and is  *)
(* not in the existing set.                                                *)
C7_UniquifyTerminatesWithFreeName ==
    /\ pg_pc[1] = "suffix" =>
          \E k \in idx[1]..MaxIdx : Candidate(base_name[1], k) \notin existing[1]
    /\ (pg_pc[1] = "clear" /\ pg_listed[1]) =>
          /\ Len(db_name[1].v) <= NameCap
          /\ db_name[1].v \notin existing[1]

(* C10: no run removes stored content: whenever no run is in progress,     *)
(* every canonical value that an earlier run ingested into the namespace   *)
(* it returned is still stored in that namespace.                          *)
C10_IngestedContentStays ==
    pg_pc[1] = "idle" =>
        \A item \in ingested_log :
            /\ item[1] \in DOMAIN databases
            /\ \E j \in 1..Len(databases[item[1]].nodes) :
                  databases[item[1]].nodes[j].canonical = item[2]

(* C9: if the extraction of a chunk ends in failure (its last outcome is a *)
(* non-retryable HTTP error, or its 3rd outcome is still a retryable one), *)
(* the run has failed at that chunk: the exception reached the caller, no  *)
(* chunk result (empty or other) was returned, no merged result was        *)
(* returned, process_text_to_graph was not entered and the store is what   *)
(* it was when the run started.                                            *)
C9_ExtractionFailureFailsRun ==
    LET last       == ex_log[Len(ex_log)]
        retryable  == \/ last.kind = "exception"
                      \/ last.status = 404 /\ last.missing_date
        failure    == /\ ex_log # <<>>
                      /\ \/ last.kind = "response" /\ last.status # 200 /\ ~retryable
                         \/ Len(ex_log) = MAX_RETRIES /\ retryable
    IN  failure =>
            /\ run_pc = "failed"
            /\ ex_pc = "raised"
            /\ ex_ret = <<>>
            /\ mg_ret = <<>>
            /\ pg_pc[1] = "idle"
            /\ databases = run_before

\* the second chunk of a run fails on its 3rd retryable outcome, after the
\* first chunk gave an entity and an earlier run filled a database
C9_Witness ==
    /\ run_pc = "failed"
    /\ Len(ex_log) = MAX_RETRIES
    /\ chunk_idx = 1
    /\ combined_entities # <<>>
    /\ \E n \in DOMAIN databases : databases[n].nodes # <<>>
    /\ databases = run_before

(* C11: in every interleaving of two concurrent runs, two runs that have   *)
(* both provisioned their namespace and are ingesting at the same time     *)
(* ingest into two different namespaces.                                   *)
C11_ConcurrentRunsDifferentNamespaces ==
    (/\ pg_pc[1] \in {"ingest_entities", "ingest_relations"}
     /\ pg_pc[2] \in {"ingest_entities", "ingest_relations"}
     /\ db_name[1].k = "str"
     /\ db_name[2].k = "str")
        => db_name[1].v # db_name[2].v

(* C12: for every text and maxLen > 0, the cut after the chunk yielded     *)
(* last falls inside a word (a non-whitespace character on both sides)     *)
(* only if the window of maxLen characters from the chunk's start holds no *)
(* whitespace character, and then the chunk is exactly maxLen long.        *)
C12_MidWordCutOnlyWithoutWhitespace ==
    ck_chunks # <<>> =>
        LET chunk == ck_chunks[Len(ck_chunks)]
            start == ck_i - Len(chunk)
            n     == Len(ck_text)
        IN  (/\ ck_i < n
             /\ ~IsSpace(ck_text[ck_i])
             /\ ~IsSpace(ck_text[ck_i + 1]))
                => /\ \A j \in (start + 1)..Min(start + ck_max_len, n) :
                         ~IsSpace(ck_text[j])
                   /\ Len(chunk) = ck_max_len

(* C13: for every title (None, empty, digit-leading, punctuation-only,    *)
(* longer than the cap) deriveName returns a non-empty name of at most 60  *)
(* characters that starts with a letter and holds only ASCII letters and   *)
(* digits.                                                                 *)
C13_DerivedNameWellFormed ==
    pg_pc[1] = "show_databases" =>
        /\ base_name[1] # <<>>
        /\ Len(base_name[1]) <= 60
        /\ \E j \in 1..26 : base_name[1][1] \in {LowerLetters[j], UpperLetters[j]}
        /\ \A i \in 1..Len(base_name[1]) :
              \/ \E j \in 1..26 : base_name[1][i] \in {LowerLetters[j], UpperLetters[j]}
              \/ base_name[1][i] \in {"0", "1", "2", "3", "4", "5", "6", "7", "8", "9"}

\* '2024 Report!' gives the letter-prefixed G2024Report
C13_Witness ==
    /\ pg_pc[1] = "show_databases"
    /\ pg_result[1].title = StrV(Title_2024Report)
    /\ base_name[1] = <<"G", "2", "0", "2", "4", "R", "e", "p", "o", "r", "t">>

(* C14: for every chunk c, fit(fit(c)) = fit(c): the second application   *)
(* of the Budget Fitter returns what the first returned.                   *)
C14_FitIdempotent ==
    Len(ft_out) = 2 => ft_out[2] = ft_out[1]

\* the first application cut the chunk at a space below the budget
C14_Witness ==
    /\ Len(ft_out) = 2
    /\ Len(ft_text) > char_budget
    /\ Len(ft_out[1]) < char_budget
    /\ ft_text[Len(ft_out[1]) + 1] = " "
    /\ ft_out[2] = ft_out[1]

(* C15: for every chunk, fit(chunk) is a prefix of the chunk, and the      *)
(* estimated token count ceil(length / 4) of the prompt template followed  *)
(* by fit(chunk) is at most 5120 - 400.                                    *)
C15_FitWithinBudget ==
    ft_out # <<>> =>
        /\ Len(ft_out[1]) <= Len(ft_text)
        /\ ft_out[1] = SubSeq(ft_text, 1, Len(ft_out[1]))
        /\ (PromptOverhead + Len(ft_out[1]) + 3) \div 4 <= 5120 - 400

\* a chunk of the largest length upload_file asks for, cut at the budget
C15_Witness ==
    /\ ft_out # <<>>
    /\ Len(ft_text) = UploadMaxLen
    /\ Len(ft_out[1]) = char_budget

(* C16: when the local ids of every chunk are pairwise distinct, a        *)
(* relation that the merge keeps from the current chunk, with from and to  *)
(* local ids given, has as from/to global ids the global ids registered    *)
(* for the normalized keys of this chunk's own entities that carry those   *)
(* local ids, whatever other chunks used the same local ids for and        *)
(* whichever chunk saw the entity first.                                   *)
C16_RelationEndpointsFromOwnChunk ==
    (/\ mg_ids_unique
     /\ mg_last_kept
     /\ mg_last_rel # <<>>
     /\ Get(mg_last_rel[1].from).k = "str"
     /\ Get(mg_last_rel[1].to).k = "str")
        => LET r    == mg_last_rel[1]
               kept == combined_relations[Len(combined_relations)]
           IN  /\ r.from.v \in DOMAIN mg_chunk_keys
               /\ r.to.v \in DOMAIN mg_chunk_keys
               /\ kept.from = canonical_to_id[mg_chunk_keys[r.from.v]]
               /\ kept.to = canonical_to_id[mg_chunk_keys[r.to.v]]

\* the second chunk reuses E1 for an entity first seen in the first chunk
\* under another spelling, and relates it to its own E2: two global
\* entities and one relation between them
C16_Witness ==
    /\ mg_ids_unique
    /\ mg_last_kept
    /\ chunk_idx = 1
    /\ Len(combined_entities) = 2
    /\ Len(combined_relations) = 1
    /\ Get(mg_last_rel[1].from) = StrV(Str_E1)
    /\ Get(mg_last_rel[1].to) = StrV(Str_E2)
    /\ combined_relations[1].from = combined_entities[1].id
    /\ combined_relations[1].to = combined_entities[2].id
    /\ combined_entities[1].id = CombinedId(0, Str_E1)
    /\ combined_entities[2].id = CombinedId(1, Str_E2)

(* C17: once the merge result is ingested into an empty namespace, the    *)
(* namespace holds one Entity per global entity, and for every global      *)
(* relation an edge of its type from the stored entity of its from         *)
(* endpoint to the stored entity of its to endpoint.                       *)
C17_MergeResultStoredWhole ==
    (mg_pc = "returned" /\ ing_last # <<>>) =>
        LET ents == mg_ret[1].entities
            rels == mg_ret[1].relations
            db   == databases[Neo4j]
        IN  /\ Len(db.nodes) = Len(ents)
            /\ \A k \in 1..Len(rels) :
                  \E j \in 1..Len(db.edges), a \in 1..Len(ents), b \in 1..Len(ents) :
                      /\ ents[a].id = rels[k].from
                      /\ ents[b].id = rels[k].to
                      /\ db.edges[j].type = rels[k].type
                      /\ db.nodes[db.edges[j].src].canonical = ents[a].canonical
                      /\ db.nodes[db.edges[j].dst].canonical = ents[b].canonical

(* C18: in any sequence of ingests into one namespace, every ingest        *)
(* leaves each stored Entity and each stored edge as it was (type and      *)
(* text, confidence and evidence included), and an Entity or edge it       *)
(* creates takes its attributes from the first entity of the ingested set  *)
(* with that canonical text, or the first relation with that (source,      *)
(* destination, type) triple: the first ingested attributes stay.          *)
C18_IngestKeepsAndFirstWins ==
    LET input   == IF ing_last' # <<>> THEN ing_last'[1] ELSE ing_last[1]
        ents    == input.entities
        rels    == input.relations
        emap    == EntityMap(EmptyDict, ents)
        old     == databases[Neo4j]
        new     == databases'[Neo4j]
        triple(r) == <<EntityMapGet(emap, r.from), EntityMapGet(emap, r.to), r.type>>
    IN  /\ Len(new.nodes) >= Len(old.nodes)
        /\ SubSeq(new.nodes, 1, Len(old.nodes)) = old.nodes
        /\ Len(new.edges) >= Len(old.edges)
        /\ SubSeq(new.edges, 1, Len(old.edges)) = old.edges
        /\ \A j \in (Len(old.nodes) + 1)..Len(new.nodes) :
              \E i \in 1..Len(ents) :
                  /\ ents[i].canonical = new.nodes[j].canonical
                  /\ \A h \in 1..(i - 1) : ents[h].canonical # ents[i].canonical
                  /\ new.nodes[j].type = ents[i].type
                  /\ new.nodes[j].text = ents[i].text
        /\ \A j \in (Len(old.edges) + 1)..Len(new.edges) :
              \E i \in 1..Len(rels) :
                  /\ triple(rels[i]) = <<new.nodes[new.edges[j].src].canonical,
                                         new.nodes[new.edges[j].dst].canonical,
                                         new.edges[j].type>>
                  /\ \A h \in 1..(i - 1) : triple(rels[h]) # triple(rels[i])
                  /\ new.edges[j].confidence = rels[i].confidence
                  /\ new.edges[j].evidence = rels[i].evidence_span

C18_FirstAttributesStay == [][C18_IngestKeepsAndFirstWins]_vars

\* an ingest has met the stored Entity and the stored edge with another
\* type and another confidence, and the stored ones are the first ones
C18_Witness ==
    /\ ing_last # <<>>
    /\ databases[Neo4j].nodes # <<>>
    /\ databases[Neo4j].edges # <<>>
    /\ \A i \in 1..Len(ing_last[1].entities) :
          ing_last[1].entities[i].type # databases[Neo4j].nodes[1].type
    /\ ing_last[1].entities # <<>>
    /\ \A i \in 1..Len(ing_last[1].relations) :
          ing_last[1].relations[i].confidence # databases[Neo4j].edges[1].confidence
    /\ ing_last[1].relations # <<>>

(* C19: when the last answer of the service for a chunk was a 200 whose    *)
(* content is empty, holds no {...} span, or holds a span that fails to    *)
(* decode, the run has not failed, and every step taken until the next     *)
(* chunk is extracted leaves the merged entities, the merged relations and *)
(* the title as they are: the chunk adds nothing and takes nothing away.   *)
C19_UndecodableChunkStep ==
    (/\ run_pc \in {"extracting", "merging", "chunking", "merged"}
     /\ ex_log # <<>>
     /\ ex_log[Len(ex_log)].kind = "response"
     /\ ex_log[Len(ex_log)].status = 200
     /\ ex_log[Len(ex_log)].content \in {"empty", "nospan", "badjson"})
        => /\ run_pc' # "failed"
           /\ ex_pc # "raised"
           /\ combined_entities' = combined_entities
           /\ combined_relations' = combined_relations
           /\ first_title' = first_title

C19_UndecodableChunkIsEmpty == [][C19_UndecodableChunkStep]_vars

\* the first chunk gave an entity, the second an undecodable span, and
\* extract_entities_chunked has returned the first chunk's entity
C19_Witness ==
    /\ run_pc = "merged"
    /\ chunk_idx = 2
    /\ ex_log[Len(ex_log)].content = "badjson"
    /\ mg_ret # <<>>
    /\ mg_ret[1].entities # <<>>

(* C20: once the creation of the derived database has failed (db_name is   *)
(* None while the ingest is under way), the call goes on: the entities are *)
(* written to the default database neo4j, then the relations, no other     *)
(* database is touched, and the call returns the name neo4j.               *)
C20_AllInDefault(db, result) ==
    /\ \A j \in 1..Len(result.entities) :
          \E n \in 1..Len(db.nodes) :
              db.nodes[n].canonical = result.entities[j].canonical
    /\ \A j \in 1..Len(result.relations) :
          \E f, t \in 1..Len(result.entities), k \in 1..Len(db.edges) :
              /\ result.entities[f].id = result.relations[j].from
              /\ result.entities[t].id = result.relations[j].to
              /\ db.nodes[db.edges[k].src].canonical = result.entities[f].canonical
              /\ db.nodes[db.edges[k].dst].canonical = result.entities[t].canonical
              /\ db.edges[k].type = result.relations[j].type

C20_FallbackStep ==
    (pg_pc[1] \in {"ingest_entities", "ingest_relations"} /\ db_name[1] = NoneV)
        => /\ DOMAIN databases' = DOMAIN databases
           /\ \A n \in DOMAIN databases \ {Neo4j} : databases'[n] = databases[n]
           /\ pg_pc[1] = "ingest_entities" =>
                 /\ pg_pc'[1] = "ingest_relations"
                 /\ C20_AllInDefault(databases'[Neo4j],
                                     [pg_result[1] EXCEPT !.relations = <<>>])
           /\ pg_pc[1] = "ingest_relations" =>
                 /\ pg_pc'[1] = "idle"
                 /\ C20_AllInDefault(databases'[Neo4j], pg_result[1])
                 /\ pg_ret'[1] = <<Neo4j>>

C20_CreationFailureFallsBack == [][C20_FallbackStep]_vars

\* a call whose creation failed has returned neo4j, and the default
\* database holds its two entities and the relation between them, while a
\* database created by an earlier call exists
C20_Witness ==
    /\ pg_pc[1] = "idle"
    /\ pg_ret[1] = <<Neo4j>>
    /\ <<"T">> \in DOMAIN databases
    /\ Len(databases[Neo4j].nodes) = 2
    /\ Len(databases[Neo4j].edges) = 1

(* C21: whenever retrieve_graph has returned for a database, (1) the       *)
(* labels of the returned nodes are exactly the canonical values that are  *)
(* an endpoint of a stored edge, one node for each; (2) the node ids are   *)
(* 0..n-1 in list order, so pairwise distinct; (3) a node comes earlier in *)
(* the list exactly when its label is seen earlier in the records read as  *)
(* from, to, from, to, ...; (4) the links correspond one to one to the     *)
(* stored edges, each carrying its edge's type as label and the canonical  *)
(* values of its edge's endpoints as source and target; (5) every source   *)
(* and target is the label of a returned node.                             *)
C21_Endpoints(db) ==
    {db.nodes[db.edges[k].src].canonical : k \in 1..Len(db.edges)}
    \cup {db.nodes[db.edges[k].dst].canonical : k \in 1..Len(db.edges)}

\* the position at which label n is first seen: record k shows its `from`
\* at 2k - 1 and its `to` at 2k
C21_FirstSeen(results, n) ==
    CHOOSE m \in 1..(2 * Len(results)) :
        /\ n = (IF m % 2 = 1 THEN results[(m + 1) \div 2].from
                ELSE results[m \div 2].to)
        /\ \A q \in 1..(m - 1) :
              n # (IF q % 2 = 1 THEN results[(q + 1) \div 2].from
                   ELSE results[q \div 2].to)

C21_RetrieveFaithful ==
    rt_ret # <<>> =>
        LET db == databases[rt_title]
            g == rt_ret[1]
            labels == {g.nodes[j].label : j \in 1..Len(g.nodes)}
        IN  /\ labels = C21_Endpoints(db)
            /\ Len(g.nodes) = Cardinality(C21_Endpoints(db))
            /\ \A j \in 1..Len(g.nodes) : g.nodes[j].id = j - 1
            /\ \A j, k \in 1..Len(g.nodes) :
                  j < k => C21_FirstSeen(rt_results, g.nodes[j].label)
                             < C21_FirstSeen(rt_results, g.nodes[k].label)
            /\ Len(g.links) = Len(db.edges)
            /\ \E order \in Permutations(1..Len(db.edges)) :
                  \A k \in 1..Len(db.edges) :
                      /\ g.links[k].label = db.edges[order[k]].type
                      /\ g.links[k].source = db.nodes[db.edges[order[k]].src].canonical
                      /\ g.links[k].target = db.nodes[db.edges[order[k]].dst].canonical
            /\ \A k \in 1..Len(g.links) :
                  g.links[k].source \in labels /\ g.links[k].target \in labels

\* a retrieval of a database that holds an entity no edge touches, a loop,
\* and two edges of different types between the same two entities, the
\* records returned in another order than the edges were stored in
C21_Witness ==
    /\ rt_ret # <<>>
    /\ Len(databases[rt_title].nodes) = 3
    /\ Len(rt_ret[1].nodes) = 2
    /\ Len(rt_ret[1].links) = 3
    /\ \E k \in 1..3 : rt_ret[1].links[k].source = rt_ret[1].links[k].target
    /\ \E j, k \in 1..3 :
          /\ j # k
          /\ rt_ret[1].links[j].source = rt_ret[1].links[k].source
          /\ rt_ret[1].links[j].target = rt_ret[1].links[k].target
          /\ rt_ret[1].links[j].label # rt_ret[1].links[k].label
    /\ rt_results[1] # RecordOf(databases[rt_title], 1)

=============================================================================
